---------------------------- MODULE Spec2Model ----------------------------
(***************************************************************************)
(* glflake: a Snowflake-style generator of 64-bit IDs (src/glflake.go).    *)
(*                                                                         *)
(*   | 1 bit unused | BitLenTime | BitLenMachineID | BitLenSequence |      *)
(*                                                                         *)
(* The model keeps the source's layout and arithmetic and scales the three *)
(* field widths (39/16/8 in the source) so that an ID fits TLC's integers. *)
(* Time is counted in quanta; glflakeTimeUnit quanta make one tick (the    *)
(* source counts nanoseconds, 1e7 to the 10 msec tick).                    *)
(*                                                                         *)
(* Three specifications: Spec (the generator, goroutines calling NextID,   *)
(* the wall clock), UseSpec (Spec and Decompose of the IDs returned) and   *)
(* IDSpec (the codecs, JSON and Decompose of the ID type, applied to an    *)
(* ID); FairSpec adds the scheduling to one configuration of Spec.         *)
(***************************************************************************)
EXTENDS Integers, Sequences, FiniteSets, TLC

(***************************************************************************)
(* Bounds of the model.                                                    *)
(***************************************************************************)
\* bit length of time (39 in the source, glflake.go:20)
BitLenTime == 2
\* bit length of machineID (16 in the source, glflake.go:21)
BitLenMachineID == 1
\* bit length of sequence number (8 in the source, glflake.go:22)
BitLenSequence == 2
\* quanta per tick (1e7 nsec in the source, glflake.go:126)
glflakeTimeUnit == 2
\* number of goroutines sharing the instance
NumThreads == 2
\* the wall clock at construction is one of 0..MaxInitNow
MaxInitNow == 2
\* NextID is invoked only while the stored tick is at most 2^BitLenTime + ExtraTicks
ExtraTicks == 0

Threads == 1..NumThreads
TimeLimit == 2 ^ BitLenTime
MaxElapsed == TimeLimit + ExtraTicks
MaxNow == (MaxElapsed + 2) * glflakeTimeUnit - 1
MachineIDs == 0..(2 ^ BitLenMachineID - 1)

(***************************************************************************)
(* int64 arithmetic, at the scaled width.                                  *)
(***************************************************************************)
WordBits == 1 + BitLenTime + BitLenMachineID + BitLenSequence

\* two's complement wrap of v to WordBits bits
Int64(v) == ((v + 2 ^ (WordBits - 1)) % 2 ^ WordBits) - 2 ^ (WordBits - 1)

\* x << n
Shl(x, n) == Int64(x * 2 ^ n)

\* x >> n on a signed integer (arithmetic shift)
Shr(x, n) == x \div 2 ^ n

RECURSIVE OrBits(_, _, _)
OrBits(a, b, n) ==
    IF n = 0 THEN 0
    ELSE (IF a % 2 = 1 \/ b % 2 = 1 THEN 1 ELSE 0)
         + 2 * OrBits(a \div 2, b \div 2, n - 1)

RECURSIVE AndBits(_, _, _)
AndBits(a, b, n) ==
    IF n = 0 THEN 0
    ELSE (IF a % 2 = 1 /\ b % 2 = 1 THEN 1 ELSE 0)
         + 2 * AndBits(a \div 2, b \div 2, n - 1)

\* x | y
BitOr(x, y) == Int64(OrBits(x, y, WordBits))

\* x & y
BitAnd(x, y) == Int64(AndBits(x, y, WordBits))

(***************************************************************************)
(* Settings, as passed to NewGlflake.                                      *)
(***************************************************************************)
\* the zero time.Time: before every clock reading
ZeroTime == -1
\* toGlflakeTime(time.Date(2021, 10, 1, ...)), in ticks
DefaultStartTime == 1

\* Settings.MachineID: nil, or a function returning (id, err)
MachineIDFns ==
    {[set |-> FALSE, id |-> 0, err |-> FALSE]}
    \cup {[set |-> TRUE, id |-> m, err |-> FALSE] : m \in MachineIDs}
    \cup {[set |-> TRUE, id |-> 0, err |-> TRUE]}

\* Settings.CheckMachineID: nil, or a predicate given by the ids it accepts
CheckMachineIDFns ==
    {[set |-> FALSE, accept |-> {}]}
    \cup {[set |-> TRUE, accept |-> a] : a \in {{}, {1}}}

Settings ==
    [StartTime : {ZeroTime} \cup 0..(MaxInitNow + 1),
     MachineID : MachineIDFns,
     CheckMachineID : CheckMachineIDFns]

\* the argument of NewGlflake once the call is over
NoSettings == [StartTime |-> ZeroTime,
               MachineID |-> [set |-> FALSE, id |-> 0, err |-> FALSE],
               CheckMachineID |-> [set |-> FALSE, accept |-> {}]]

\* what lower16BitPrivateIP() may return on a host: (id, nil) or (0, err)
PrivateIPResults ==
    {[id |-> m, err |-> FALSE] : m \in MachineIDs} \cup {[id |-> 0, err |-> TRUE]}

\* the host once NewGlflake is over: lower16BitPrivateIP is not called again
NoHost == [id |-> 0, err |-> FALSE]

VARIABLES
    now,           \* the wall clock, in quanta
    clockSetBack,  \* history: the wall clock has been set back (or held)
    st,            \* the Settings NewGlflake is called with
    host,          \* what lower16BitPrivateIP() returns on this host
    created,       \* "pending", "nil" (NewGlflake returned nil) or "ok"
    gf,            \* the glflake struct
    mutex,         \* gf.mutex: 0 when unlocked, else the holder
    pc,            \* where each goroutine is in NextID
    overtime,      \* NextID's local `overtime` (0: not set)
    timer,         \* quanta left of time.Sleep
    res,           \* what NextID returned to each goroutine
    lastID,        \* history: the last ID the instance returned, -1 if none
    overflowed,    \* history: some NextID call returned the overflow error
    x,             \* the ID handed to a codec, to MarshalJSON or to Decompose
    enc,           \* the encoding a codec returned
    parsed,        \* what the parser returned: (ID, error)
    raw,           \* the bytes handed to UnmarshalJSON
    target,        \* the ID UnmarshalJSON is called on
    jerr,          \* what UnmarshalJSON returned
    fields         \* the map Decompose returned

\* the generator and its callers
genVars == <<now, clockSetBack, st, host, created, gf, mutex, pc, overtime,
             timer, res, lastID, overflowed>>

\* the caller of the ID type's functions
idVars == <<x, enc, parsed, raw, target, jerr, fields>>

vars == <<now, clockSetBack, st, host, created, gf, mutex, pc, overtime,
          timer, res, lastID, overflowed, x, enc, parsed, raw, target, jerr,
          fields>>

\* toGlflakeTime: t.UTC().UnixNano() / glflakeTimeUnit
toGlflakeTime(t) == t \div glflakeTimeUnit

\* currentElapsedTime: toGlflakeTime(time.Now()) - startTime
currentElapsedTime(startTime) == toGlflakeTime(now) - startTime

\* a slip: one tick too few
sleepTimeShort(ot) == (ot - 1) * glflakeTimeUnit - (now % glflakeTimeUnit)

\* sleepTime: overtime * 10ms - (time.Now().UnixNano() % glflakeTimeUnit)
sleepTime(ot) == ot * glflakeTimeUnit - (now % glflakeTimeUnit)

\* a slip: `>` for `>=`
toIDOffByOne(g) ==
    IF g.elapsedTime > 2 ^ BitLenTime
    THEN [id |-> 0, err |-> TRUE]
    ELSE [id |-> BitOr(BitOr(Shl(g.elapsedTime, BitLenMachineID + BitLenSequence),
                             Shl(g.machineID, BitLenSequence)),
                       g.sequence),
          err |-> FALSE]

\* a slip: the machine ID shifted by its own width
toIDMachineShift(g) ==
    IF g.elapsedTime >= 2 ^ BitLenTime
    THEN [id |-> 0, err |-> TRUE]
    ELSE [id |-> BitOr(BitOr(Shl(g.elapsedTime, BitLenMachineID + BitLenSequence),
                             Shl(g.machineID, BitLenMachineID)),
                       g.sequence),
          err |-> FALSE]

\* toID: (ID, error)
toID(g) ==
    IF g.elapsedTime >= 2 ^ BitLenTime
    THEN [id |-> 0, err |-> TRUE]
    ELSE [id |-> BitOr(BitOr(Shl(g.elapsedTime, BitLenMachineID + BitLenSequence),
                             Shl(g.machineID, BitLenSequence)),
                       g.sequence),
          err |-> FALSE]

\* a slip: the machine ID shifted down without its mask
DecomposeNoMask(id) ==
    LET maskSequence  == 2 ^ BitLenSequence - 1
    IN  [id         |-> id,
         msb        |-> Shr(id, WordBits - 1),
         time       |-> Shr(id, BitLenMachineID + BitLenSequence),
         machine_id |-> Shr(id, BitLenSequence),
         sequence   |-> BitAnd(id, maskSequence)]

\* Decompose
Decompose(id) ==
    LET maskMachineID == Shl(2 ^ BitLenMachineID - 1, BitLenSequence)
        maskSequence  == 2 ^ BitLenSequence - 1
    IN  [id         |-> id,
         msb        |-> Shr(id, WordBits - 1),
         time       |-> Shr(id, BitLenMachineID + BitLenSequence),
         machine_id |-> Shr(BitAnd(id, maskMachineID), BitLenSequence),
         sequence   |-> BitAnd(id, maskSequence)]

NoResult == [id |-> 0, err |-> FALSE]

(***************************************************************************)
(* The ID type: codecs and JSON.  Text is a sequence of one-character      *)
(* strings, a byte slice a sequence of numbers 0..255.  The functions take *)
(* non-negative IDs (the most significant bit is always 0).                *)
(***************************************************************************)
\* the largest ID handed to a codec
MaxCodecID == 3500

\* the ID of TestMarshalJSON and TestUnmarshalJSON
TestedID == 13587

CodecIDs == 0..MaxCodecID \cup {TestedID}

DecimalMap ==
    <<"0", "1", "2", "3", "4", "5", "6", "7", "8", "9">>

\* custom alphabet: lowercase only, no l, v, 2
encodeBase32Map ==
    <<"y", "b", "n", "d", "r", "f", "g", "8", "e", "j", "k", "m", "c", "p",
      "q", "x", "o", "t", "1", "u", "w", "i", "s", "z", "a", "3", "4", "5",
      "h", "7", "6", "9">>

\* digits 0-9, a-z
encodeBase36Map ==
    <<"0", "1", "2", "3", "4", "5", "6", "7", "8", "9", "a", "b", "c", "d",
      "e", "f", "g", "h", "i", "j", "k", "l", "m", "n", "o", "p", "q", "r",
      "s", "t", "u", "v", "w", "x", "y", "z">>

\* Bitcoin-style alphabet: no 0, I, O, l
encodeBase58Map ==
    <<"1", "2", "3", "4", "5", "6", "7", "8", "9", "a", "b", "c", "d", "e",
      "f", "g", "h", "i", "j", "k", "m", "n", "o", "p", "q", "r", "s", "t",
      "u", "v", "w", "x", "y", "z", "A", "B", "C", "D", "E", "F", "G", "H",
      "J", "K", "L", "M", "N", "P", "Q", "R", "S", "T", "U", "V", "W", "X",
      "Y", "Z">>

\* standard base64
encodeStd ==
    <<"A", "B", "C", "D", "E", "F", "G", "H", "I", "J", "K", "L", "M", "N",
      "O", "P", "Q", "R", "S", "T", "U", "V", "W", "X", "Y", "Z", "a", "b",
      "c", "d", "e", "f", "g", "h", "i", "j", "k", "l", "m", "n", "o", "p",
      "q", "r", "s", "t", "u", "v", "w", "x", "y", "z", "0", "1", "2", "3",
      "4", "5", "6", "7", "8", "9", "+", "/">>

\* the base64 padding character
StdPadding == "="

\* the digits of f >= 0 in a base, most significant first
RECURSIVE FormatDigits(_, _)
FormatDigits(f, base) ==
    IF f < base THEN <<f>>
    ELSE Append(FormatDigits(f \div base, base), f % base)

\* digits mapped through an alphabet table
FormatText(f, map) ==
    LET ds == FormatDigits(f, Len(map))
    IN  [i \in 1..Len(ds) |-> map[ds[i] + 1]]

\* the value of a character in an alphabet table, -1 when it is not in it
DecodeChar(c, map) ==
    IF \E i \in 1..Len(map) : map[i] = c
    THEN (CHOOSE i \in 1..Len(map) : map[i] = c) - 1
    ELSE -1

\* the number a text spells in an alphabet, -1 on a character outside it
RECURSIVE ParseFrom(_, _, _, _)
ParseFrom(s, i, map, acc) ==
    IF i > Len(s) THEN acc
    ELSE IF acc < 0 \/ DecodeChar(s[i], map) = -1 THEN -1
    ELSE ParseFrom(s, i + 1, map, acc * Len(map) + DecodeChar(s[i], map))

ParseText(s, map, acc) == ParseFrom(s, 1, map, acc)

\* a parser's (ID, error)
ParseOK(v) == [id |-> v, err |-> FALSE]
ParseError(v) == [id |-> v, err |-> TRUE]

\* text of at most `digits` characters of an alphabet, and not empty
ParseNumber(s, map, digits) ==
    IF Len(s) = 0 \/ Len(s) > digits \/ ParseText(s, map, 0) = -1
    THEN ParseError(0)
    ELSE ParseOK(ParseText(s, map, 0))

\* digits an int64 takes at most: decimal, binary, base 36
MaxDecimalDigits == 19
MaxBinaryDigits == 63
MaxBase36Digits == 13

\* ID.Int64 and ParseInt64: the cast to and from int64
IDInt64(f) == f
ParseInt64(i) == ParseOK(i)

\* ID.String and ParseString: base-10 text
String(f) == FormatText(f, DecimalMap)
ParseString(s) == ParseNumber(s, DecimalMap, MaxDecimalDigits)

\* ID.Base2: base-2 text, padded with zeros to 63 digits
Base2(f) ==
    LET t == FormatText(f, <<"0", "1">>)
    IN  [i \in 1..(MaxBinaryDigits - Len(t)) |-> "0"] \o t

\* ParseBase2: padding not required
ParseBase2(s) == ParseNumber(s, <<"0", "1">>, MaxBinaryDigits)

\* ID.Base32 and ParseBase32
Base32(f) == FormatText(f, encodeBase32Map)

ParseBase32(b) ==
    LET v == ParseText(b, encodeBase32Map, 0)
    IN  IF v = -1 THEN ParseError(-1) ELSE ParseOK(v)

\* ID.Base36 and ParseBase36
Base36(f) == FormatText(f, encodeBase36Map)
ParseBase36(s) == ParseNumber(s, encodeBase36Map, MaxBase36Digits)

\* ID.Base58 and ParseBase58
Base58(f) == FormatText(f, encodeBase58Map)

ParseBase58(b) ==
    LET v == ParseText(b, encodeBase58Map, 0)
    IN  IF v = -1 THEN ParseError(-1) ELSE ParseOK(v)

\* ID.Bytes: the decimal digits as ASCII bytes
Bytes(f) ==
    LET ds == FormatDigits(f, 10)
    IN  [i \in 1..Len(ds) |-> 48 + ds[i]]

\* the number ASCII decimal digits spell, -1 on any other byte
RECURSIVE AtoiFrom(_, _, _)
AtoiFrom(b, i, acc) ==
    IF i > Len(b) THEN acc
    ELSE IF acc < 0 \/ b[i] \notin 48..57 THEN -1
    ELSE AtoiFrom(b, i + 1, acc * 10 + (b[i] - 48))

Atoi(b, acc) == AtoiFrom(b, 1, acc)

\* ParseBytes: fails on more than 19 digits
ParseBytes(b) ==
    IF Len(b) = 0 \/ Len(b) > MaxDecimalDigits \/ Atoi(b, 0) = -1
    THEN ParseError(0)
    ELSE ParseOK(Atoi(b, 0))

\* standard base64 of a byte slice, padded
RECURSIVE EncodeToString(_)
EncodeToString(b) ==
    IF Len(b) = 0 THEN <<>>
    ELSE IF Len(b) = 1
    THEN <<encodeStd[b[1] \div 4 + 1],
           encodeStd[(b[1] % 4) * 16 + 1],
           StdPadding, StdPadding>>
    ELSE IF Len(b) = 2
    THEN <<encodeStd[b[1] \div 4 + 1],
           encodeStd[(b[1] % 4) * 16 + b[2] \div 16 + 1],
           encodeStd[(b[2] % 16) * 4 + 1],
           StdPadding>>
    ELSE <<encodeStd[b[1] \div 4 + 1],
           encodeStd[(b[1] % 4) * 16 + b[2] \div 16 + 1],
           encodeStd[(b[2] % 16) * 4 + b[3] \div 64 + 1],
           encodeStd[(b[3] % 64) + 1]>>
         \o EncodeToString(SubSeq(b, 4, Len(b)))

\* the bytes of padded standard base64 text; <<-1>> when it is malformed
RECURSIVE DecodeString(_)
DecodeString(s) ==
    IF Len(s) = 0 THEN <<>>
    ELSE IF Len(s) < 4 THEN <<-1>>
    ELSE
      LET v(i) == DecodeChar(s[i], encodeStd)
          last == Len(s) = 4
      IN  IF v(1) = -1 \/ v(2) = -1 THEN <<-1>>
          ELSE IF last /\ s[3] = StdPadding /\ s[4] = StdPadding
          THEN <<v(1) * 4 + v(2) \div 16>>
          ELSE IF v(3) = -1 THEN <<-1>>
          ELSE IF last /\ s[4] = StdPadding
          THEN <<v(1) * 4 + v(2) \div 16, (v(2) % 16) * 16 + v(3) \div 4>>
          ELSE IF v(4) = -1 THEN <<-1>>
          ELSE LET rest == DecodeString(SubSeq(s, 5, Len(s)))
               IN  IF rest = <<-1>> THEN <<-1>>
                   ELSE <<v(1) * 4 + v(2) \div 16,
                          (v(2) % 16) * 16 + v(3) \div 4,
                          (v(3) % 4) * 64 + v(4)>> \o rest

\* ID.Base64: base64 of the decimal text, not of the integer's bytes
Base64(f) == EncodeToString(Bytes(f))

\* ParseBase64: malformed base64, or a payload that is not a number
ParseBase64(s) ==
    IF DecodeString(s) = <<-1>> THEN ParseError(-1)
    ELSE ParseBytes(DecodeString(s))

\* the low bytes of v >= 0, most significant first
RECURSIVE BigEndian(_, _)
BigEndian(v, n) ==
    IF n = 0 THEN <<>> ELSE Append(BigEndian(v \div 256, n - 1), v % 256)

\* ID.IntBytes: 8 bytes, big endian
IntBytes(f) == BigEndian(f, 8)

RECURSIVE FromBigEndian(_, _)
FromBigEndian(b, acc) ==
    IF Len(b) = 0 THEN acc ELSE FromBigEndian(Tail(b), acc * 256 + Head(b))

\* a slip: the bytes read as little endian
ParseIntBytesLittle(b) ==
    ParseOK(FromBigEndian(<<b[4] % 128, b[3], b[2], b[1]>>, 0))

\* ParseIntBytes
ParseIntBytes(b) == ParseOK(FromBigEndian(b, 0))

Codecs ==
    {"Int64", "String", "Base2", "Base32", "Base36", "Base58", "Base64",
     "Bytes", "IntBytes"}

\* the encoder of a codec
Encode(c, f) ==
    CASE c = "Int64"    -> IDInt64(f)
      [] c = "String"   -> String(f)
      [] c = "Base2"    -> Base2(f)
      [] c = "Base32"   -> Base32(f)
      [] c = "Base36"   -> Base36(f)
      [] c = "Base58"   -> Base58(f)
      [] c = "Base64"   -> Base64(f)
      [] c = "Bytes"    -> Bytes(f)
      [] c = "IntBytes" -> IntBytes(f)

\* the parser that matches it
Parse(c, e) ==
    CASE c = "Int64"    -> ParseInt64(e)
      [] c = "String"   -> ParseString(e)
      [] c = "Base2"    -> ParseBase2(e)
      [] c = "Base32"   -> ParseBase32(e)
      [] c = "Base36"   -> ParseBase36(e)
      [] c = "Base58"   -> ParseBase58(e)
      [] c = "Base64"   -> ParseBase64(e)
      [] c = "Bytes"    -> ParseBytes(e)
      [] c = "IntBytes" -> ParseIntBytes(e)

NoEncoding == [codec |-> "none", val |-> <<>>]
NoParse == [done |-> FALSE, id |-> 0, err |-> FALSE]

\* the double quote, as a byte
Quote == 34

\* ID.MarshalJSON: the decimal digits between double quotes
MarshalJSON(f) == <<Quote>> \o Bytes(f) \o <<Quote>>

NoJSONError == [err |-> "nil", raw |-> <<>>]

\* JSONSyntaxError{original}: carries the offending bytes
JSONSyntaxError(b) == [err |-> "JSONSyntaxError", raw |-> b]

\* a slip: the closing quote not looked at
UnmarshalJSONOpenQuoteOnly(f, b) ==
    IF Len(b) < 3 \/ b[1] # Quote
    THEN [id |-> f, err |-> JSONSyntaxError(b)]
    ELSE LET i == ParseBytes(SubSeq(b, 2, Len(b) - 1))
         IN  IF i.err
             THEN [id |-> f, err |-> JSONSyntaxError(b)]
             ELSE [id |-> i.id, err |-> NoJSONError]

\* (*ID).UnmarshalJSON(b) called on an ID holding f: the ID afterwards and the
\* error; anything but a quoted decimal string is a syntax error
UnmarshalJSON(f, b) ==
    IF Len(b) < 3 \/ b[1] # Quote \/ b[Len(b)] # Quote
    THEN [id |-> f, err |-> JSONSyntaxError(b)]
    ELSE LET i == ParseBytes(SubSeq(b, 2, Len(b) - 1))
         IN  IF i.err
             THEN [id |-> f, err |-> JSONSyntaxError(b)]
             ELSE [id |-> i.id, err |-> NoJSONError]

\* JSON texts that are not a quoted decimal string: a bare number, a missing
\* quote on either side, a lone quote, `"invalid` and `"invalid"`
Malformed(f) ==
    {Bytes(f),
     <<Quote>> \o Bytes(f),
     Bytes(f) \o <<Quote>>,
     <<Quote>>,
     <<Quote, 105, 110, 118, 97, 108, 105, 100>>,
     <<Quote, 105, 110, 118, 97, 108, 105, 100, Quote>>}

\* UnmarshalJSON has not been called
NotCalled == [err |-> "none", raw |-> <<>>]

\* the values an ID may hold before UnmarshalJSON is called on it
Targets == {0, 7}

\* Decompose has not been called
NoFields == [id |-> 0, msb |-> -2, time |-> 0, machine_id |-> 0, sequence |-> 0]

\* the largest ID of the layout: all bits but the most significant one
MaxID == 2 ^ (WordBits - 1) - 1

Init ==
    /\ now \in 0..MaxInitNow
    /\ clockSetBack = FALSE
    /\ st \in Settings
    /\ host \in PrivateIPResults
    /\ created = "pending"
    /\ gf = [startTime |-> 0, elapsedTime |-> 0, machineID |-> 0, sequence |-> 0]
    /\ mutex = 0
    /\ pc = [t \in Threads |-> "idle"]
    /\ overtime = [t \in Threads |-> 0]
    /\ timer = [t \in Threads |-> 0]
    /\ res = [t \in Threads |-> NoResult]
    /\ lastID = -1
    /\ overflowed = FALSE
    /\ x = 0
    /\ enc = NoEncoding
    /\ parsed = NoParse
    /\ raw = <<>>
    /\ target = 0
    /\ jerr = NotCalled
    /\ fields = NoFields

\* lower16BitPrivateIP()
lower16BitPrivateIP == host

\* a slip: the sequence left at its zero value
NewGlflakeResultSeqZero(s) ==
    LET startTime == IF s.StartTime = ZeroTime
                     THEN DefaultStartTime
                     ELSE toGlflakeTime(s.StartTime)
        m == IF s.MachineID.set
             THEN [id |-> s.MachineID.id, err |-> s.MachineID.err]
             ELSE lower16BitPrivateIP
    IN  IF s.StartTime > now
        THEN [nil |-> TRUE, gf |-> gf]
        ELSE IF m.err \/ (s.CheckMachineID.set /\ m.id \notin s.CheckMachineID.accept)
        THEN [nil |-> TRUE, gf |-> gf]
        ELSE [nil |-> FALSE,
              gf  |-> [startTime |-> startTime, elapsedTime |-> 0,
                       machineID |-> m.id,
                       sequence |-> 0]]

\* a slip: CheckMachineID never consulted
NewGlflakeResultNoCheck(s) ==
    LET startTime == IF s.StartTime = ZeroTime
                     THEN DefaultStartTime
                     ELSE toGlflakeTime(s.StartTime)
        m == IF s.MachineID.set
             THEN [id |-> s.MachineID.id, err |-> s.MachineID.err]
             ELSE lower16BitPrivateIP
    IN  IF s.StartTime > now
        THEN [nil |-> TRUE, gf |-> gf]
        ELSE IF m.err
        THEN [nil |-> TRUE, gf |-> gf]
        ELSE [nil |-> FALSE,
              gf  |-> [startTime |-> startTime, elapsedTime |-> 0,
                       machineID |-> m.id,
                       sequence |-> 2 ^ BitLenSequence - 1]]

\* NewGlflake(st): nil, or the new instance
NewGlflakeResult(s) ==
    LET startTime == IF s.StartTime = ZeroTime
                     THEN DefaultStartTime
                     ELSE toGlflakeTime(s.StartTime)
        m == IF s.MachineID.set
             THEN [id |-> s.MachineID.id, err |-> s.MachineID.err]
             ELSE lower16BitPrivateIP
    IN  IF s.StartTime > now
        THEN [nil |-> TRUE, gf |-> gf]
        ELSE IF m.err \/ (s.CheckMachineID.set /\ m.id \notin s.CheckMachineID.accept)
        THEN [nil |-> TRUE, gf |-> gf]
        ELSE [nil |-> FALSE,
              gf  |-> [startTime |-> startTime, elapsedTime |-> 0,
                       machineID |-> m.id,
                       sequence |-> 2 ^ BitLenSequence - 1]]

NewGlflake ==
    /\ created = "pending"
    /\ LET r == NewGlflakeResult(st)
       IN  /\ created' = IF r.nil THEN "nil" ELSE "ok"
           /\ gf' = r.gf
    /\ st' = NoSettings
    /\ host' = NoHost
    /\ UNCHANGED <<now, clockSetBack, mutex, pc, overtime, timer, res,
                   lastID, overflowed>>
    /\ UNCHANGED idVars

\* a goroutine calls gf.NextID(); the parts of the ID before are dropped
Call(t) ==
    /\ created = "ok"
    /\ pc[t] \in {"idle", "done"}
    /\ gf.elapsedTime <= MaxElapsed
    /\ pc' = [pc EXCEPT ![t] = "wait"]
    /\ res' = [res EXCEPT ![t] = NoResult]
    /\ fields' = NoFields
    /\ UNCHANGED <<now, clockSetBack, st, host, created, gf, mutex, overtime,
                   timer, lastID, overflowed>>
    /\ UNCHANGED <<x, enc, parsed, raw, target, jerr>>

\* a slip: no lock taken
LockNotTaken == TRUE

\* gf.mutex.Lock()
LockFree == mutex = 0

Lock(t) ==
    /\ pc[t] = "wait"
    /\ LockFree
    /\ mutex' = t
    /\ pc' = [pc EXCEPT ![t] = "locked"]
    /\ UNCHANGED <<now, clockSetBack, st, host, created, gf, overtime, timer,
                   res, lastID, overflowed>>
    /\ UNCHANGED idVars

\* a slip: `!=` for `<`, so that a clock reading behind the stored tick is adopted
AdvanceAdoptsClock(g, cur) ==
    IF g.elapsedTime # cur
    THEN [gf |-> [g EXCEPT !.elapsedTime = cur, !.sequence = 0],
          wrapped |-> FALSE, overtime |-> 0]
    ELSE LET seq == (g.sequence + 1) % 2 ^ BitLenSequence
         IN  IF seq = 0
             THEN [gf |-> [g EXCEPT !.elapsedTime = g.elapsedTime + 1,
                                    !.sequence = 0],
                   wrapped |-> TRUE, overtime |-> g.elapsedTime + 1 - cur]
             ELSE [gf |-> [g EXCEPT !.sequence = seq],
                   wrapped |-> FALSE, overtime |-> 0]

\* a slip: the adopted tick stored into a fresh struct, the machine ID lost
AdvanceDropsMachineID(g, cur) ==
    IF g.elapsedTime < cur
    THEN [gf |-> [g EXCEPT !.elapsedTime = cur, !.sequence = 0,
                           !.machineID = 0],
          wrapped |-> FALSE, overtime |-> 0]
    ELSE LET seq == (g.sequence + 1) % 2 ^ BitLenSequence
         IN  IF seq = 0
             THEN [gf |-> [g EXCEPT !.elapsedTime = g.elapsedTime + 1,
                                    !.sequence = 0],
                   wrapped |-> TRUE, overtime |-> g.elapsedTime + 1 - cur]
             ELSE [gf |-> [g EXCEPT !.sequence = seq],
                   wrapped |-> FALSE, overtime |-> 0]

\* a slip: `<=` for `<`, so that the clock tick is adopted again within the tick
AdvanceAdoptsEqual(g, cur) ==
    IF g.elapsedTime <= cur
    THEN [gf |-> [g EXCEPT !.elapsedTime = cur, !.sequence = 0],
          wrapped |-> FALSE, overtime |-> 0]
    ELSE LET seq == (g.sequence + 1) % 2 ^ BitLenSequence
         IN  IF seq = 0
             THEN [gf |-> [g EXCEPT !.elapsedTime = g.elapsedTime + 1,
                                    !.sequence = 0],
                   wrapped |-> TRUE, overtime |-> g.elapsedTime + 1 - cur]
             ELSE [gf |-> [g EXCEPT !.sequence = seq],
                   wrapped |-> FALSE, overtime |-> 0]

\* a slip: on a wrap the stored tick set to one beyond the clock tick read
AdvanceBeyondCurrent(g, cur) ==
    IF g.elapsedTime < cur
    THEN [gf |-> [g EXCEPT !.elapsedTime = cur, !.sequence = 0],
          wrapped |-> FALSE, overtime |-> 0]
    ELSE LET seq == (g.sequence + 1) % 2 ^ BitLenSequence
         IN  IF seq = 0
             THEN [gf |-> [g EXCEPT !.elapsedTime = cur + 1,
                                    !.sequence = 0],
                   wrapped |-> TRUE, overtime |-> 1]
             ELSE [gf |-> [g EXCEPT !.sequence = seq],
                   wrapped |-> FALSE, overtime |-> 0]

\* a slip: the wrap sleeps and forgets gf.elapsedTime++
AdvanceNoIncrement(g, cur) ==
    IF g.elapsedTime < cur
    THEN [gf |-> [g EXCEPT !.elapsedTime = cur, !.sequence = 0],
          wrapped |-> FALSE, overtime |-> 0]
    ELSE LET seq == (g.sequence + 1) % 2 ^ BitLenSequence
         IN  IF seq = 0
             THEN [gf |-> [g EXCEPT !.sequence = 0],
                   wrapped |-> TRUE, overtime |-> g.elapsedTime + 1 - cur]
             ELSE [gf |-> [g EXCEPT !.sequence = seq],
                   wrapped |-> FALSE, overtime |-> 0]

\* NextID lines 110-118: the new (elapsedTime, sequence), whether the sequence
\* wrapped, and overtime
Advance(g, cur) ==
    IF g.elapsedTime < cur
    THEN [gf |-> [g EXCEPT !.elapsedTime = cur, !.sequence = 0],
          wrapped |-> FALSE, overtime |-> 0]
    ELSE LET seq == (g.sequence + 1) % 2 ^ BitLenSequence
         IN  IF seq = 0
             THEN [gf |-> [g EXCEPT !.elapsedTime = g.elapsedTime + 1,
                                    !.sequence = 0],
                   wrapped |-> TRUE, overtime |-> g.elapsedTime + 1 - cur]
             ELSE [gf |-> [g EXCEPT !.sequence = seq],
                   wrapped |-> FALSE, overtime |-> 0]

Update(t) ==
    /\ pc[t] = "locked"
    /\ LET cur == currentElapsedTime(gf.startTime)
           a   == Advance(gf, cur)
       IN  /\ gf' = a.gf
           /\ overtime' = [overtime EXCEPT ![t] = a.overtime]
           /\ pc' = [pc EXCEPT ![t] = IF a.wrapped THEN "overflow" ELSE "toID"]
    /\ UNCHANGED <<now, clockSetBack, st, host, created, mutex, timer,
                   res, lastID, overflowed>>
    /\ UNCHANGED idVars

\* a slip: the lock released for the time of the sleep
SleepStartUnlocked(t) ==
    /\ pc[t] = "overflow"
    /\ timer' = [timer EXCEPT ![t] = sleepTime(overtime[t])]
    /\ overtime' = [overtime EXCEPT ![t] = 0]
    /\ pc' = [pc EXCEPT ![t] = "sleeping"]
    /\ mutex' = 0
    /\ UNCHANGED <<now, clockSetBack, st, host, created, gf, res, lastID,
                   overflowed>>
    /\ UNCHANGED idVars

\* time.Sleep(sleepTime(overtime)) begins
SleepStart(t) ==
    /\ pc[t] = "overflow"
    /\ timer' = [timer EXCEPT ![t] = sleepTime(overtime[t])]
    /\ overtime' = [overtime EXCEPT ![t] = 0]
    /\ pc' = [pc EXCEPT ![t] = "sleeping"]
    /\ UNCHANGED <<now, clockSetBack, st, host, created, gf, mutex, res, lastID,
                   overflowed>>
    /\ UNCHANGED idVars

\* time.Sleep returns once the duration has passed
SleepOver(t) == timer[t] <= 0

Wake(t) ==
    /\ pc[t] = "sleeping"
    /\ SleepOver(t)
    /\ timer' = [timer EXCEPT ![t] = 0]
    /\ pc' = [pc EXCEPT ![t] = "woken"]
    /\ UNCHANGED <<now, clockSetBack, st, host, created, gf, mutex, overtime, res,
                   lastID, overflowed>>
    /\ UNCHANGED idVars

\* a slip: Unlock() on the success path only, not deferred
ReturnKeepsLockOnError(t) ==
    /\ pc[t] \in {"toID", "woken"}
    /\ LET r == toID(gf)
       IN  /\ res' = [res EXCEPT ![t] = r]
           /\ lastID' = IF r.err THEN lastID ELSE r.id
           /\ overflowed' = (overflowed \/ r.err)
           /\ mutex' = IF r.err THEN mutex ELSE 0
    /\ pc' = [pc EXCEPT ![t] = "done"]
    /\ UNCHANGED <<now, clockSetBack, st, host, created, gf, overtime,
                   timer>>
    /\ UNCHANGED idVars

\* return gf.toID(), with the deferred gf.mutex.Unlock()
Return(t) ==
    /\ pc[t] \in {"toID", "woken"}
    /\ LET r == toID(gf)
       IN  /\ res' = [res EXCEPT ![t] = r]
           /\ lastID' = IF r.err THEN lastID ELSE r.id
           /\ overflowed' = (overflowed \/ r.err)
    /\ mutex' = 0
    /\ pc' = [pc EXCEPT ![t] = "done"]
    /\ UNCHANGED <<now, clockSetBack, st, host, created, gf, overtime, timer>>
    /\ UNCHANGED idVars

\* one quantum passes; at MaxNow the wall clock is held (set back as it advances)
Tick ==
    /\ created = "ok"
    /\ now' = IF now < MaxNow THEN now + 1 ELSE now
    /\ clockSetBack' = (clockSetBack \/ now = MaxNow)
    /\ timer' = [t \in Threads |->
                   IF pc[t] = "sleeping" /\ timer[t] > 0 THEN timer[t] - 1
                   ELSE timer[t]]
    /\ UNCHANGED <<st, host, created, gf, mutex, pc, overtime, res, lastID,
                   overflowed>>
    /\ UNCHANGED idVars

\* the wall clock is set back (NTP step, operator)
ClockBack ==
    /\ created = "ok"
    /\ \E v \in 0..(now - 1) : now' = v
    /\ clockSetBack' = TRUE
    /\ UNCHANGED <<st, host, created, gf, mutex, pc, overtime, timer, res,
                   lastID, overflowed>>
    /\ UNCHANGED idVars

Next ==
    \/ NewGlflake
    \/ \E t \in Threads : Call(t)
    \/ \E t \in Threads : Lock(t)
    \/ \E t \in Threads : Update(t)
    \/ \E t \in Threads : SleepStart(t)
    \/ \E t \in Threads : Wake(t)
    \/ \E t \in Threads : Return(t)
    \/ Tick
    \/ ClockBack

Spec == Init /\ [][Next]_vars

\* parts := Decompose(id), id the ID the goroutine's NextID call returned
DecomposeReturned(t) ==
    /\ pc[t] = "done"
    /\ ~res[t].err
    /\ fields' = Decompose(res[t].id)
    /\ UNCHANGED <<x, enc, parsed, raw, target, jerr>>
    /\ UNCHANGED genVars

\* the generator, its callers, and Decompose of the IDs they get
UseNext ==
    \/ Next
    \/ \E t \in Threads : DecomposeReturned(t)

UseSpec == Init /\ [][UseNext]_vars

(***************************************************************************)
(* The functions of the ID type, applied to an ID by a caller that does    *)
(* one thing with it: encodes it and parses the encoding back, sends it as *)
(* JSON (or receives malformed JSON), or decomposes it.                    *)
(***************************************************************************)
\* no generator is involved
NoGenerator ==
    /\ now = 0
    /\ clockSetBack = FALSE
    /\ st = NoSettings
    /\ host = NoHost
    /\ created = "pending"
    /\ gf = [startTime |-> 0, elapsedTime |-> 0, machineID |-> 0, sequence |-> 0]
    /\ mutex = 0
    /\ pc = [t \in Threads |-> "idle"]
    /\ overtime = [t \in Threads |-> 0]
    /\ timer = [t \in Threads |-> 0]
    /\ res = [t \in Threads |-> NoResult]
    /\ lastID = -1
    /\ overflowed = FALSE

IDInit ==
    /\ NoGenerator
    /\ x \in CodecIDs
    /\ enc = NoEncoding
    /\ parsed = NoParse
    /\ raw = <<>>
    /\ target \in Targets
    /\ jerr = NotCalled
    /\ fields = NoFields

\* nothing has been done with the ID yet
Untouched == enc = NoEncoding /\ raw = <<>> /\ fields = NoFields

\* x.Int64(), x.String(), x.Base2(), ...
EncodeID(c) ==
    /\ Untouched
    /\ enc' = [codec |-> c, val |-> Encode(c, x)]
    /\ UNCHANGED <<x, parsed, raw, target, jerr, fields>>
    /\ UNCHANGED genVars

\* ParseInt64(e), ParseString(e), ParseBase2(e), ...: the parser of the codec
ParseEncoded ==
    /\ enc # NoEncoding
    /\ ~parsed.done
    /\ LET r == Parse(enc.codec, enc.val)
       IN  parsed' = [done |-> TRUE, id |-> r.id, err |-> r.err]
    /\ UNCHANGED <<x, enc, raw, target, jerr, fields>>
    /\ UNCHANGED genVars

\* x.MarshalJSON()
MarshalID ==
    /\ Untouched
    /\ raw' = MarshalJSON(x)
    /\ UNCHANGED <<x, enc, parsed, target, jerr, fields>>
    /\ UNCHANGED genVars

\* JSON that no MarshalJSON wrote arrives
ReceiveMalformed ==
    /\ Untouched
    /\ \E b \in Malformed(x) : raw' = b
    /\ UNCHANGED <<x, enc, parsed, target, jerr, fields>>
    /\ UNCHANGED genVars

\* target.UnmarshalJSON(raw)
UnmarshalID ==
    /\ raw # <<>>
    /\ jerr = NotCalled
    /\ LET r == UnmarshalJSON(target, raw)
       IN  /\ target' = r.id
           /\ jerr' = r.err
    /\ UNCHANGED <<x, enc, parsed, raw, fields>>
    /\ UNCHANGED genVars

\* Decompose(x), x a value of the ID's width
DecomposeID ==
    /\ Untouched
    /\ x <= MaxID
    /\ fields' = Decompose(x)
    /\ UNCHANGED <<x, enc, parsed, raw, target, jerr>>
    /\ UNCHANGED genVars

IDNext ==
    \/ \E c \in Codecs : EncodeID(c)
    \/ ParseEncoded
    \/ MarshalID
    \/ ReceiveMalformed
    \/ UnmarshalID
    \/ DecomposeID

IDSpec == IDInit /\ [][IDNext]_vars

(***************************************************************************)
(* Vocabulary of the properties.                                           *)
(***************************************************************************)
\* between gf.mutex.Lock() and the deferred Unlock()
InNextID(t) == pc[t] \in {"locked", "overflow", "sleeping", "woken", "toID"}

\* this step is thread t's NextID returning
Returning(t) == pc[t] \in {"toID", "woken"} /\ pc'[t] = "done"

\* thread t holds an ID returned by its last call
HoldsID(t) == pc[t] = "done" /\ ~res[t].err

\* thread t holds the overflow error returned by its last call
HoldsError(t) == pc[t] = "done" /\ res[t].err

MaxSequence == 2 ^ BitLenSequence - 1

\* (time, sequence) of a before that of b
LexLess(a, b) ==
    \/ a.time < b.time
    \/ a.time = b.time /\ a.sequence < b.sequence

(***************************************************************************)
(* C1: every ID an instance returns is strictly greater, as an integer,    *)
(* than the ID it returned last (hence than every earlier one), and its    *)
(* (time, sequence) is lexicographically greater.                          *)
(***************************************************************************)
C1_StrictlyIncreasing ==
    [][\A t \in Threads :
         (Returning(t) /\ ~res'[t].err /\ lastID >= 0) =>
            /\ res'[t].id > lastID
            /\ LexLess(Decompose(lastID), Decompose(res'[t].id))]_vars

\* two threads hold IDs, the later one the greater
C1_Witness ==
    \E t, u \in Threads :
        /\ t # u /\ HoldsID(t) /\ HoldsID(u)
        /\ res[u].id = lastID /\ res[t].id < res[u].id

(***************************************************************************)
(* C2: at most one thread is between Lock and Unlock, that thread is the   *)
(* holder of the mutex, and the IDs the threads hold are pairwise          *)
(* distinct.                                                               *)
(***************************************************************************)
C2_MutualExclusion ==
    /\ Cardinality({t \in Threads : InNextID(t)}) <= 1
    /\ \A t \in Threads : InNextID(t) <=> mutex = t
    /\ \A t, u \in Threads :
         (t # u /\ HoldsID(t) /\ HoldsID(u)) => res[t].id # res[u].id

\* one thread is inside NextID while another waits for the lock, IDs being out
C2_Witness ==
    \E t, u \in Threads :
        /\ t # u /\ InNextID(t) /\ pc[u] = "wait"
        /\ lastID >= 0

(***************************************************************************)
(* C3: NextID returns the overflow error exactly when the stored elapsed   *)
(* tick after the call's update is >= 2^BitLenTime; an ID it returns is    *)
(* non-negative and carries the stored tick unchanged in its time field.   *)
(***************************************************************************)
C3_OverflowExactly ==
    [][\A t \in Threads :
         Returning(t) =>
            /\ res'[t].err <=> gf.elapsedTime >= 2 ^ BitLenTime
            /\ res'[t].err => res'[t].id = 0
            /\ ~res'[t].err =>
                 /\ res'[t].id >= 0
                 /\ Decompose(res'[t].id).time = gf.elapsedTime
                 /\ Decompose(res'[t].id).time < 2 ^ BitLenTime]_vars

\* a call has returned the overflow error with the stored tick exactly at the
\* limit, right after the last ID of the tick before it
C3_Witness ==
    /\ \E t \in Threads : HoldsError(t)
    /\ gf.elapsedTime = 2 ^ BitLenTime /\ gf.sequence = 0
    /\ lastID >= 0
    /\ Decompose(lastID).time = 2 ^ BitLenTime - 1
    /\ Decompose(lastID).sequence = MaxSequence

(***************************************************************************)
(* C4: once a NextID call has returned the overflow error, every later     *)
(* return of the instance is the overflow error.                           *)
(***************************************************************************)
C4_OverflowPermanent ==
    [][\A t \in Threads :
         (overflowed /\ Returning(t)) => res'[t].err]_vars

\* every thread holds the overflow error of its last call, and the clock has
\* been set back below the limit
C4_Witness ==
    /\ overflowed /\ clockSetBack
    /\ currentElapsedTime(gf.startTime) < 2 ^ BitLenTime
    /\ \A t \in Threads : HoldsError(t)

(***************************************************************************)
(* C5: an ID returned by NextID is non-negative; Decompose of it gives     *)
(* msb 0, the stored tick, the instance's machine ID and the stored        *)
(* sequence, each within its width, and the fields recombine to the ID.    *)
(***************************************************************************)
C5_Layout ==
    [][\A t \in Threads :
         (Returning(t) /\ ~res'[t].err) =>
            LET id == res'[t].id
                d  == Decompose(id)
            IN  /\ id >= 0
                /\ d.id = id
                /\ d.msb = 0
                /\ d.time = gf.elapsedTime
                /\ d.time \in 0..(2 ^ BitLenTime - 1)
                /\ d.machine_id = gf.machineID
                /\ d.sequence = gf.sequence
                /\ d.sequence \in 0..MaxSequence
                /\ id = d.time * 2 ^ (BitLenMachineID + BitLenSequence)
                        + d.machine_id * 2 ^ BitLenSequence
                        + d.sequence]_vars

\* a thread holds an ID with every field non-zero
C5_Witness ==
    \E t \in Threads :
        /\ HoldsID(t)
        /\ Decompose(res[t].id).time > 0
        /\ Decompose(res[t].id).machine_id = 1
        /\ Decompose(res[t].id).sequence = MaxSequence


(***************************************************************************)
(* C6 (as stated): within a tick the IDs carry sequence 0, 1, ... in       *)
(* order; the call after the ID with the last sequence of tick T, made     *)
(* while the clock has not passed T, wraps, sleeps a positive time, and    *)
(* returns an ID with time T+1 and sequence 0.                             *)
(***************************************************************************)
\* the IDs of one tick carry 0, 1, 2, ... in the order they are returned
SequenceInOrder(t) ==
    (Returning(t) /\ ~res'[t].err) =>
        LET new == Decompose(res'[t].id)
        IN  IF lastID >= 0 /\ new.time = Decompose(lastID).time
            THEN new.sequence = Decompose(lastID).sequence + 1
            ELSE new.sequence = 0

\* the update of the call after the last sequence of the stored tick T, the
\* clock being in T or behind: tick T+1, sequence 0, and a sleep ahead
WrapAdvances(t) ==
    (/\ pc[t] = "locked" /\ pc'[t] # "locked"
     /\ gf.sequence = MaxSequence
     /\ lastID >= 0 /\ Decompose(lastID).time = gf.elapsedTime
     /\ Decompose(lastID).sequence = MaxSequence
     /\ currentElapsedTime(gf.startTime) <= gf.elapsedTime) =>
        /\ gf'.elapsedTime = gf.elapsedTime + 1
        /\ gf'.sequence = 0
        /\ pc'[t] = "overflow"

\* the sleep of a wrap lasts a positive time
WrapWaits(t) ==
    /\ (pc[t] = "overflow" /\ pc'[t] # "overflow") =>
           (pc'[t] = "sleeping" /\ timer'[t] > 0)
    /\ (pc[t] = "sleeping" /\ pc'[t] # "sleeping") =>
           (pc'[t] = "woken" /\ timer[t] = 0)

\* thread t returns from the call that wrapped after the ID (T, last sequence)
ReturnsAfterWrap(t) ==
    /\ Returning(t) /\ pc[t] = "woken"
    /\ lastID >= 0 /\ Decompose(lastID).sequence = MaxSequence
    /\ gf.elapsedTime = Decompose(lastID).time + 1

C6_AsStated ==
    [][\A t \in Threads :
         /\ SequenceInOrder(t)
         /\ WrapAdvances(t)
         /\ WrapWaits(t)
         /\ ReturnsAfterWrap(t) =>
              /\ ~res'[t].err
              /\ Decompose(res'[t].id).time = Decompose(lastID).time + 1
              /\ Decompose(res'[t].id).sequence = 0]_vars

(***************************************************************************)
(* C6 (amended): as above, but the call after the last sequence of tick T  *)
(* returns the ID (T+1, 0) only when T+1 < 2^BitLenTime; when T+1 is the   *)
(* limit it returns the overflow error.                                    *)
(***************************************************************************)
C6_SequenceExhaustion ==
    [][\A t \in Threads :
         /\ SequenceInOrder(t)
         /\ WrapAdvances(t)
         /\ WrapWaits(t)
         /\ ReturnsAfterWrap(t) =>
              IF Decompose(lastID).time + 1 < 2 ^ BitLenTime
              THEN /\ ~res'[t].err
                   /\ Decompose(res'[t].id).time = Decompose(lastID).time + 1
                   /\ Decompose(res'[t].id).sequence = 0
              ELSE res'[t].err]_vars

\* the whole of a tick T >= 1 has been handed out and the next call has
\* returned (T+1, 0)
C6_Witness ==
    \E t, u \in Threads :
        /\ t # u /\ HoldsID(t) /\ HoldsID(u)
        /\ Decompose(res[t].id).sequence = MaxSequence
        /\ Decompose(res[t].id).time >= 1
        /\ Decompose(res[u].id).sequence = 0
        /\ Decompose(res[u].id).time = Decompose(res[t].id).time + 1
        /\ res[u].id = lastID
        /\ currentElapsedTime(gf.startTime) = Decompose(res[u].id).time
        /\ ~clockSetBack

C8_AsStated ==
    [][\A t \in Threads :
         (Returning(t) /\ ~res'[t].err) =>
            gf.startTime + Decompose(res'[t].id).time <= toGlflakeTime(now')]_vars

(***************************************************************************)
(* C8 (amended): provided the wall clock has never been set back (or held) *)
(* since the instance was made, when NextID returns an ID epoch + the ID's *)
(* time field is at most the clock tick; so a call that wrapped returns    *)
(* only once the clock has reached the advanced tick.                      *)
(***************************************************************************)
C8_NotAheadOfSteadyClock ==
    [][\A t \in Threads :
         (Returning(t) /\ ~res'[t].err /\ ~clockSetBack') =>
            gf.startTime + Decompose(res'[t].id).time <= toGlflakeTime(now')]_vars

\* under a steady clock a call that wrapped after a full tick has slept and is
\* about to return
C8_Witness ==
    \E t \in Threads :
        /\ pc[t] = "woken"
        /\ ~clockSetBack
        /\ lastID >= 0 /\ Decompose(lastID).sequence = MaxSequence
        /\ gf.elapsedTime < 2 ^ BitLenTime

(***************************************************************************)
(* Scheduling: every goroutine inside NextID keeps running, time passes,   *)
(* and sync.Mutex hands the lock to a goroutine that keeps waiting for it  *)
(* (its starvation mode).  One configuration is followed: epoch = the      *)
(* clock at construction, machine ID 1.                                    *)
(***************************************************************************)
FairInit ==
    /\ Init
    /\ now = 0
    /\ st = [StartTime |-> 0,
             MachineID |-> [set |-> TRUE, id |-> 1, err |-> FALSE],
             CheckMachineID |-> [set |-> FALSE, accept |-> {}]]
    /\ host = NoHost

Fairness ==
    /\ WF_vars(Tick)
    /\ \A t \in Threads :
         /\ SF_vars(Lock(t))
         /\ WF_vars(Update(t))
         /\ WF_vars(SleepStart(t))
         /\ WF_vars(Wake(t))
         /\ WF_vars(Return(t))

FairSpec == FairInit /\ [][Next]_vars /\ Fairness

(***************************************************************************)
(* C9: every invoked NextID call completes, with an ID or the overflow     *)
(* error; the mutex is held only by a thread inside NextID, so it is       *)
(* released on every return, and no thread waits for it forever.           *)
(***************************************************************************)
C9_Completes ==
    /\ [](\A t \in Threads : mutex = t => InNextID(t))
    /\ [](\A t \in Threads : pc[t] = "done" => mutex # t)
    /\ \A t \in Threads :
         (pc[t] = "wait" \/ InNextID(t)) ~> (pc[t] = "done" /\ mutex # t)

\* a call has returned the overflow error, the mutex is free again and the
\* other thread, which waited for it, has it next
C9_Witness ==
    \E t, u \in Threads :
        /\ t # u
        /\ HoldsError(t)
        /\ mutex = u /\ pc[u] = "locked"

(***************************************************************************)
(* C10: the first ID an instance returns has sequence 0 and the            *)
(* instance's machine ID; its time is the tick the call read from the      *)
(* clock when that is at least 1 (and 1 when the call was made within the  *)
(* epoch's own tick or before it).                                         *)
(***************************************************************************)
C10_FirstID ==
    [][\A t \in Threads :
         /\ (/\ pc[t] = "locked" /\ pc'[t] # "locked"
             /\ gf.elapsedTime = 0 /\ gf.sequence = MaxSequence) =>
               /\ gf'.sequence = 0
               /\ gf'.elapsedTime =
                    IF currentElapsedTime(gf.startTime) >= 1
                    THEN currentElapsedTime(gf.startTime)
                    ELSE 1
         /\ (Returning(t) /\ lastID = -1 /\ ~res'[t].err) =>
               /\ Decompose(res'[t].id).sequence = 0
               /\ Decompose(res'[t].id).machine_id = gf.machineID
               /\ Decompose(res'[t].id).time = gf.elapsedTime]_vars

\* the only call so far was made 2^BitLenTime - 1 ticks after the epoch, on an
\* instance with machine ID 1, and returned that tick with sequence 0
C10_Witness ==
    \E t \in Threads :
        /\ HoldsID(t) /\ res[t].id = lastID
        /\ \A u \in Threads \ {t} : pc[u] = "idle"
        /\ Decompose(res[t].id) =
             [id |-> res[t].id, msb |-> 0, time |-> 2 ^ BitLenTime - 1,
              machine_id |-> 1, sequence |-> 0]
        /\ gf.elapsedTime = 2 ^ BitLenTime - 1 /\ gf.sequence = 0
        /\ ~clockSetBack

(***************************************************************************)
(* C11: round trip.  For every codec (Int64, String, Base2, Base32,        *)
(* Base36, Base58, Base64, Bytes, IntBytes) the matching parser applied to *)
(* the encoding of an ID returns that ID and no error.                     *)
(***************************************************************************)
C11_RoundTrip ==
    parsed.done => (parsed.id = x /\ ~parsed.err)

\* a three-digit base32 text has been parsed back
C11_Witness ==
    /\ parsed.done
    /\ enc.codec = "Base32" /\ Len(enc.val) = 3
    /\ enc.val[1] # enc.val[2] /\ enc.val[2] # enc.val[3]
    /\ x > 32 * 32

(***************************************************************************)
(* C12: MarshalJSON of an ID is its decimal digits between double quotes   *)
(* (13587 gives "13587"); UnmarshalJSON of a quoted decimal string sets    *)
(* the ID to that value; for an input that is not a quoted string (a bare  *)
(* number, an unterminated quote) it returns JSONSyntaxError carrying the  *)
(* input bytes and leaves the ID as it was.                                *)
(***************************************************************************)
\* b begins and ends with a double quote
Quoted(b) == Len(b) >= 2 /\ b[1] = Quote /\ b[Len(b)] = Quote

C12_JSON ==
    [][/\ (raw = <<>> /\ raw' = MarshalJSON(x)) =>
            /\ Quoted(raw')
            /\ Len(raw') = Len(String(x)) + 2
            /\ \A i \in 1..Len(String(x)) :
                 raw'[i + 1] \in 48..57
                 /\ DecimalMap[raw'[i + 1] - 47] = String(x)[i]
            /\ x = TestedID => raw' = <<34, 49, 51, 53, 56, 55, 34>>
       /\ (jerr = NotCalled /\ jerr' # NotCalled) =>
            /\ raw = MarshalJSON(x) => (target' = x /\ jerr' = NoJSONError)
            /\ ~Quoted(raw) =>
                 /\ jerr'.err = "JSONSyntaxError" /\ jerr'.raw = raw
                 /\ target' = target]_vars

\* UnmarshalJSON, called on an ID holding 7 with the unterminated "13587, has
\* returned the syntax error
C12_Witness ==
    /\ x = TestedID
    /\ raw = <<34, 49, 51, 53, 56, 55>>
    /\ jerr = JSONSyntaxError(raw)
    /\ target = 7

(***************************************************************************)
(* C13: Decompose of the largest signed value of the ID's width (every bit *)
(* but the most significant one set; 9223372036854775807 at 64 bits) gives *)
(* time 2^BitLenTime - 1, machine-id 2^BitLenMachineID - 1, sequence       *)
(* 2^BitLenSequence - 1, msb 0 and id the input.                           *)
(***************************************************************************)
C13_DecomposeMax ==
    (fields # NoFields /\ x = MaxID) =>
        fields = [id         |-> MaxID,
                  msb        |-> 0,
                  time       |-> 2 ^ BitLenTime - 1,
                  machine_id |-> 2 ^ BitLenMachineID - 1,
                  sequence   |-> 2 ^ BitLenSequence - 1]

\* Decompose has been called on the largest value
C13_Witness ==
    /\ x = MaxID
    /\ fields # NoFields /\ fields.id = MaxID /\ fields.time > 0

(***************************************************************************)
(* C14 (as stated): whenever NextID sleeps, the duration it asks for is    *)
(* greater than 0 and less than one tick (10ms).                           *)
(***************************************************************************)
\* this step is thread t's time.Sleep(sleepTime(overtime)) beginning
StartsSleep(t) == pc[t] = "overflow" /\ pc'[t] = "sleeping"

C14_AsStated ==
    [][\A t \in Threads :
         StartsSleep(t) =>
            (timer'[t] > 0 /\ timer'[t] < glflakeTimeUnit)]_vars

(***************************************************************************)
(* C14 (amended): whenever NextID sleeps, the duration it asks for is      *)
(* greater than 0 and at most overtime ticks, overtime >= 1 being the      *)
(* distance from the clock tick the call read to the advanced stored tick; *)
(* it falls short of that by less than one tick.  So it is at most one     *)
(* tick (10ms, reached on a tick boundary) when the call read the stored   *)
(* tick from the clock, and longer when the clock was behind it.           *)
(***************************************************************************)
C14_SleepBounded ==
    [][\A t \in Threads :
         /\ (pc[t] = "locked" /\ pc'[t] = "overflow") =>
              /\ overtime'[t] = gf'.elapsedTime - currentElapsedTime(gf.startTime)
              /\ overtime'[t] >= 1
              /\ currentElapsedTime(gf.startTime) = gf.elapsedTime
                   => overtime'[t] = 1
         /\ StartsSleep(t) =>
              /\ overtime[t] >= 1
              /\ timer'[t] > 0
              /\ timer'[t] <= overtime[t] * glflakeTimeUnit
              /\ timer'[t] > (overtime[t] - 1) * glflakeTimeUnit]_vars

\* under a steady clock a call sleeps exactly one tick: it wrapped within the
\* stored tick and asks for the sleep on a tick boundary
C14_Witness ==
    \E t \in Threads :
        /\ pc[t] = "sleeping"
        /\ timer[t] = glflakeTimeUnit
        /\ now % glflakeTimeUnit = 0
        /\ ~clockSetBack
        /\ gf.elapsedTime = currentElapsedTime(gf.startTime)

(***************************************************************************)
(* C15 (as stated): when the sequence increment wraps to 0, the stored     *)
(* tick is set to one tick beyond the clock tick the call read.            *)
(***************************************************************************)
\* this step is thread t's update of the state, and it wraps the sequence
Wraps(t) == pc[t] = "locked" /\ pc'[t] = "overflow"

C15_AsStated ==
    [][\A t \in Threads :
         Wraps(t) =>
            gf'.elapsedTime = currentElapsedTime(gf.startTime) + 1]_vars

(***************************************************************************)
(* C15 (amended): when the sequence increment wraps to 0, the stored tick  *)
(* is advanced by one (stored + 1); that is one tick beyond the clock tick *)
(* the call read when the clock is in the stored tick, and more than one   *)
(* beyond it when the clock is behind the stored tick.                     *)
(***************************************************************************)
C15_WrapAdvancesStored ==
    [][\A t \in Threads :
         Wraps(t) =>
            LET current == currentElapsedTime(gf.startTime)
            IN  /\ gf.sequence = MaxSequence /\ gf'.sequence = 0
                /\ current <= gf.elapsedTime
                /\ gf'.elapsedTime = gf.elapsedTime + 1
                /\ current = gf.elapsedTime => gf'.elapsedTime = current + 1
                /\ current < gf.elapsedTime => gf'.elapsedTime > current + 1]_vars

\* a tick has been used up while the clock was set back behind it: the wrap has
\* put the stored tick two or more beyond the clock
C15_Witness ==
    \E t \in Threads :
        /\ pc[t] = "overflow"
        /\ overtime[t] >= 2
        /\ clockSetBack
        /\ lastID >= 0 /\ Decompose(lastID).sequence = MaxSequence
        /\ gf.elapsedTime = Decompose(lastID).time + 1

(***************************************************************************)
(* C16: the sleep of a sequence wrap is performed while the lock is held:  *)
(* from the step in which a NextID call wraps the sequence until that call *)
(* returns, the call holds the mutex, no other thread is inside NextID     *)
(* (none reads or changes the generator state), the state is not changed,  *)
(* and no other thread's call returns.                                     *)
(***************************************************************************)
\* thread t's call has wrapped the sequence and has not returned
Wrapped(t) == pc[t] \in {"overflow", "sleeping", "woken"}

C16_SleepUnderLock ==
    [][\A t \in Threads :
         Wrapped(t) =>
            /\ mutex = t
            /\ gf' = gf
            /\ lastID' # lastID => Returning(t)
            /\ \A u \in Threads \ {t} :
                 /\ ~InNextID(u) /\ pc'[u] \in {"idle", "wait", "done"}
                 /\ ~Returning(u)
                 /\ res'[u] # res[u] => (pc[u] = "done" /\ pc'[u] = "wait")]_vars

\* one thread sleeps with time left, the other waits for the lock, and an ID has
\* been returned before
C16_Witness ==
    \E t, u \in Threads :
        /\ t # u
        /\ pc[t] = "sleeping" /\ timer[t] > 0 /\ mutex = t
        /\ pc[u] = "wait"
        /\ lastID >= 0

(***************************************************************************)
(* C17: if the clock tick NextID reads is greater than the stored tick,    *)
(* the call adopts it: the stored tick becomes the clock tick, the         *)
(* sequence becomes 0, and the ID the call returns carries that tick and   *)
(* sequence 0.  Otherwise the stored tick is kept, unless the sequence     *)
(* wraps, and the sequence becomes (sequence + 1) mod 2^BitLenSequence.    *)
(***************************************************************************)
\* this step is thread t's update of the state (glflake.go:109-120)
Updates(t) == pc[t] = "locked" /\ pc'[t] # "locked"

C17_AdoptOrIncrement ==
    [][\A t \in Threads :
         LET current == currentElapsedTime(gf.startTime)
         IN  /\ (Updates(t) /\ current > gf.elapsedTime) =>
                  /\ gf'.elapsedTime = current
                  /\ gf'.sequence = 0
                  /\ pc'[t] = "toID"
                  /\ ~toID(gf').err =>
                       /\ Decompose(toID(gf').id).time = current
                       /\ Decompose(toID(gf').id).sequence = 0
             /\ (Updates(t) /\ current <= gf.elapsedTime) =>
                  /\ gf'.sequence = (gf.sequence + 1) % 2 ^ BitLenSequence
                  /\ gf'.sequence # 0 =>
                       (gf'.elapsedTime = gf.elapsedTime /\ pc'[t] = "toID")
                  /\ gf'.sequence = 0 =>
                       (gf'.elapsedTime = gf.elapsedTime + 1 /\ pc'[t] = "overflow")
             /\ pc[t] = "toID" =>
                  /\ gf' = gf
                  /\ pc'[t] \in {"toID", "done"}
                  /\ pc'[t] = "done" =>
                       (res'[t] = toID(gf) /\ (~res'[t].err => lastID' = res'[t].id))]_vars

\* a call has adopted a later clock tick than that of the last ID, whose tick
\* was not used up, and is about to return
C17_Witness ==
    \E t \in Threads :
        /\ pc[t] = "toID"
        /\ gf.sequence = 0
        /\ gf.elapsedTime = currentElapsedTime(gf.startTime)
        /\ lastID >= 0
        /\ Decompose(lastID).time < gf.elapsedTime
        /\ Decompose(lastID).sequence \in 1..(MaxSequence - 1)
        /\ ~toID(gf).err

(***************************************************************************)
(* C18: NextID changes only the stored elapsed tick and the sequence: once *)
(* the instance is made, its start epoch and machine ID keep their values  *)
(* through every step of every NextID call (wraps and overflow errors      *)
(* included), and the state changes only in the update step of the call    *)
(* that holds the mutex; Decompose changes nothing of the generator.       *)
(***************************************************************************)
C18_Frame ==
    [][/\ created = "ok" =>
            /\ gf'.startTime = gf.startTime
            /\ gf'.machineID = gf.machineID
            /\ gf' # gf => \E t \in Threads : Updates(t) /\ mutex = t
       /\ fields' # fields /\ fields' # NoFields =>
            /\ gf' = gf
            /\ UNCHANGED <<mutex, pc, res, lastID, overflowed, now>>]_vars

\* after calls that wrapped and a call that failed with overflow, the epoch and
\* the machine ID are those of construction, and Decompose has been applied to
\* the last ID
C18_Witness ==
    /\ overflowed
    /\ gf.elapsedTime >= 2 ^ BitLenTime
    /\ gf.startTime = DefaultStartTime /\ gf.machineID = 1
    /\ fields = Decompose(lastID)
    /\ fields.time = 2 ^ BitLenTime - 1 /\ fields.sequence = MaxSequence

(***************************************************************************)
(* C19: the stored elapsed tick never decreases, also when the wall clock  *)
(* moves backwards between calls: a call that reads a clock tick behind    *)
(* the stored tick does not adopt it but takes the next sequence number of *)
(* the stored tick (the next tick when they are used up), so that every ID *)
(* returned is greater than the one before and no (tick, sequence) is      *)
(* issued twice.                                                           *)
(***************************************************************************)
C19_StoredTickMonotone ==
    [][/\ created = "ok" => gf'.elapsedTime >= gf.elapsedTime
       /\ \A t \in Threads :
            /\ (Updates(t) /\ currentElapsedTime(gf.startTime) < gf.elapsedTime) =>
                 /\ gf'.sequence = (gf.sequence + 1) % 2 ^ BitLenSequence
                 /\ gf'.elapsedTime =
                      IF gf'.sequence = 0 THEN gf.elapsedTime + 1
                      ELSE gf.elapsedTime
                 /\ gf'.elapsedTime > currentElapsedTime(gf.startTime)
            /\ Updates(t) =>
                 LexLess([time |-> gf.elapsedTime, sequence |-> gf.sequence],
                         [time |-> gf'.elapsedTime, sequence |-> gf'.sequence])
            /\ (Returning(t) /\ ~res'[t].err /\ lastID >= 0) =>
                 /\ res'[t].id > lastID
                 /\ Decompose(res'[t].id).time >= Decompose(lastID).time]_vars

\* the clock has been set back behind the stored tick, and a call made since is
\* about to return that tick with a later sequence number
C19_Witness ==
    \E t \in Threads :
        /\ pc[t] = "toID"
        /\ clockSetBack
        /\ currentElapsedTime(gf.startTime) < gf.elapsedTime - 1
        /\ gf.sequence >= 2
        /\ lastID >= 0
        /\ Decompose(lastID).time = gf.elapsedTime
        /\ Decompose(lastID).sequence = gf.sequence - 1

(***************************************************************************)
(* C20: an instance never returns an ID whose time field is 0.  The first  *)
(* update finds the stored tick 0 with the last sequence value; made       *)
(* within the epoch's own tick (clock tick 0) it takes the increment       *)
(* branch, wraps the sequence to 0, advances the stored tick to 1 and      *)
(* sleeps.                                                                 *)
(***************************************************************************)
C20_NoTimeZero ==
    [][\A t \in Threads :
         /\ (Returning(t) /\ ~res'[t].err) =>
              Decompose(res'[t].id).time >= 1
         /\ (Updates(t) /\ gf.elapsedTime = 0) =>
              /\ lastID = -1 /\ gf.sequence = MaxSequence
              /\ gf'.elapsedTime >= 1 /\ gf'.sequence = 0
         /\ (Updates(t) /\ gf.elapsedTime = 0
             /\ currentElapsedTime(gf.startTime) = 0) =>
              /\ gf'.elapsedTime = 1
              /\ pc'[t] = "overflow"
              /\ overtime'[t] = 1]_vars

\* the first call, made within the epoch's own tick, sleeps with the stored
\* tick advanced to 1
C20_Witness ==
    \E t \in Threads :
        /\ pc[t] = "sleeping" /\ timer[t] > 0
        /\ lastID = -1
        /\ gf.elapsedTime = 1 /\ gf.sequence = 0
        /\ currentElapsedTime(gf.startTime) = 0
        /\ ~clockSetBack

=============================================================================
